---------------------------- MODULE Spec2Model ----------------------------
(***************************************************************************)
(* Scheduling & Conflict Resolver Agent (src/Sheduling_Agent.py).          *)
(*                                                                         *)
(* Instants are integers: the number of seconds since 00:00 of a reference *)
(* day 0.  A stored ISO string is modelled by the instant it parses to;    *)
(* isoformat(timespec="minutes") is modelled by what it does to that       *)
(* instant (it drops the seconds).  Microseconds are treated by the code   *)
(* exactly as seconds are (zeroed by replace, dropped by isoformat,        *)
(* floored by total_seconds() // 60), so seconds stand for every           *)
(* sub-minute part.                                                        *)
(***************************************************************************)
EXTENDS Integers, Sequences, FiniteSets, TLC

\* events:  the rows of the events table
\* seq:     the AUTOINCREMENT counter of events.id
\* resp:    the response to the last request served
\* issued:  the ids that add_event_db has returned since the service started
\* pending: a /suggestions request between its two reads of the table
\* tasks:   _tasks, the in-memory task store of the reminder backend
\* next_id: _next_id, the id the next task gets
VARIABLES events, seq, resp, issued, pending, tasks, next_id

vars == <<events, seq, resp, issued, pending, tasks, next_id>>

(***************************************************************************)
(* Bounds of the model and the input grids.                                *)
(***************************************************************************)
MaxBusy == 2
MaxDay == 1

\* the instant hh:mm:ss of day d
At(d, h, m, s) == ((d * 24 + h) * 60 + m) * 60 + s

MaxEvents == 2
MaxListed == 3
MaxExtra == 2
MaxMixed == 2
MaxResolve == 3
MaxTasks == 2

Titles == {"X"}

\* instants of the events the callers add: on and off the minute
AddInstants == {At(0, 9, 0, 0), At(0, 9, 30, 0), At(0, 9, 30, 30), At(0, 10, 0, 0),
                At(0, 10, 30, 0)}
\* accepted windows (end after start) and rejected ones (end at or before start)
AddWindows == {w \in AddInstants \X AddInstants : w[1] < w[2]}
BadWindows == {<<At(0, 10, 0, 0), At(0, 10, 0, 0)>>, <<At(0, 10, 0, 0), At(0, 9, 0, 0)>>}
\* windows a caller posts to /apply_suggestion on its own
ApplyWindows == {<<At(0, 10, 30, 0), At(0, 11, 30, 0)>>, <<At(0, 11, 0, 0), At(0, 10, 0, 0)>>}

\* windows of the events supplied to the free-slot search
FindStarts == {At(d, h, 0, 0) : d \in 0..MaxDay, h \in {9, 23}}
FindLengths == {30 * 60, 67 * 60, 10 * 3600}
FindWindows == {<<s, s + l>> : s \in FindStarts, l \in FindLengths}
\* lower bounds handed to the search: before, inside and after working
\* hours, with and without seconds, and just before midnight
ClockMarks == {<<7, 0, 0>>, <<10, 0, 30>>, <<20, 30, 0>>, <<23, 58, 0>>}
Afters == {At(d, c[1], c[2], c[3]) : d \in 0..MaxDay, c \in ClockMarks}
Durations == {30, 60}

(***************************************************************************)
(* Program constants.                                                      *)
(***************************************************************************)
WorkStartHour == 8
WorkEndHour == 21
SearchDays == 7
RoundStep == 5
None == -1

(***************************************************************************)
(* datetime helpers                                                        *)
(***************************************************************************)
\* dt.date(), as a day number
date(dt) == dt \div 86400
\* dt.minute
minute(dt) == (dt % 3600) \div 60
\* timedelta(minutes = n), timedelta(hours = n), timedelta(days = n)
minutes(n) == n * 60
hours(n) == n * 3600
days(n) == n * 86400
\* datetime.combine(day, datetime.min.time())
midnight(day) == day * 86400
\* dt.isoformat(timespec = "minutes") read back as an instant
isoformat_minutes(dt) == dt - (dt % 60)
\* int(td.total_seconds() // 60)
whole_minutes(td) == td \div 60

Max(a, b) == IF a >= b THEN a ELSE b

\* round_up_to_5min
round_up_to_5min(dt) ==
    LET minute_ == ((minute(dt) + 4) \div RoundStep) * RoundStep
    IN  (dt - (dt % 3600)) + minutes(minute_)

(***************************************************************************)
(* The events table and its listing                                        *)
(***************************************************************************)
\* start_iso is stored as the caller wrote it. datetime.fromisoformat takes
\* any character between the date and the time; start_sep is the code of
\* that character: "T", or a space
SepT == 84
SepSpace == 32

\* a row whose start_iso is written with start_sep between date and time
RowWritten(id, title, start, start_sep, end, place) ==
    [id |-> id, title |-> title, start |-> start, start_sep |-> start_sep,
     end |-> end, place |-> place]

\* a row whose start_iso is written with "T", as isoformat() writes it
Row(id, title, start, end, place) == RowWritten(id, title, start, SepT, end, place)

\* the order of the start_iso strings: by date, then by the separator, then
\* by the time of day
StartIsoLeq(r, q) ==
    \/ date(r.start) < date(q.start)
    \/ /\ date(r.start) = date(q.start)
       /\ \/ r.start_sep < q.start_sep
          \/ r.start_sep = q.start_sep /\ r.start <= q.start

\* ORDER BY start_iso: every order of the rows that is ascending in the
\* start_iso string; the order of rows with equal start is not defined by
\* the query.
RECURSIVE list_events_db(_)
list_events_db(tbl) ==
    IF tbl = {} THEN {<<>>}
    ELSE LET first == {r \in tbl : \A q \in tbl : StartIsoLeq(r, q)}
         IN  UNION {{<<r>> \o rest : rest \in list_events_db(tbl \ {r})} : r \in first}

(***************************************************************************)
(* find_free_slot                                                          *)
(***************************************************************************)
\* the (start, end) tuples of the events that start on `day`, in list order
RECURSIVE busy_of(_, _)
busy_of(all_events, day) ==
    IF all_events = <<>> THEN <<>>
    ELSE LET ev == Head(all_events)
         IN  (IF date(ev.start) = day THEN <<<<ev.start, ev.end>>>> ELSE <<>>)
             \o busy_of(Tail(all_events), day)

\* tuple order of Python: by start, then by end
TupleLeq(x, y) == x[1] < y[1] \/ (x[1] = y[1] /\ x[2] <= y[2])

\* busy.sort()
RECURSIVE sort(_)
sort(busy) ==
    IF busy = <<>> THEN <<>>
    ELSE LET i == CHOOSE i \in DOMAIN busy : \A j \in DOMAIN busy : TupleLeq(busy[i], busy[j])
             rest == [k \in 1..(Len(busy) - 1) |-> IF k < i THEN busy[k] ELSE busy[k + 1]]
         IN  <<busy[i]>> \o sort(rest)

\* (mutant of advance: the cursor is left where it is)
advance_stuck(cursor, b_end) == cursor

\* cursor = max(cursor, b_end)
advance(cursor, b_end) == Max(cursor, b_end)

\* the loop over the sorted busy windows and the check after it:
\* the slot found on this day, or None
RECURSIVE sweep(_, _, _, _)
sweep(busy, cursor, duration, day_end) ==
    IF busy = <<>>
    THEN IF cursor + duration <= day_end THEN cursor ELSE None
    ELSE LET b_start == Head(busy)[1]
             b_end == Head(busy)[2]
         IN  IF cursor + duration <= b_start THEN cursor
             ELSE sweep(Tail(busy), advance(cursor, b_end), duration, day_end)

\* the body of the loop over day_offset, from day_offset on
RECURSIVE search_from(_, _, _, _, _)
search_from(all_events, probe, duration, day_offset, search_days) ==
    IF day_offset >= search_days THEN None
    ELSE LET day == date(probe + days(day_offset))
             busy == sort(busy_of(all_events, day))
             day_start == midnight(day) + hours(WorkStartHour)
             day_end == midnight(day) + hours(WorkEndHour)
             cursor == IF day_offset = 0 THEN Max(probe, day_start) ELSE day_start
             found == sweep(busy, cursor, duration, day_end)
         IN  IF found # None THEN found
             ELSE search_from(all_events, probe, duration, day_offset + 1, search_days)

\* (mutant of find_free_slot: the rounded lower bound is returned unsearched)
find_free_slot_at_bound(all_events, duration_minutes, after_time, search_days) ==
    round_up_to_5min(after_time)

find_free_slot(all_events, duration_minutes, after_time, search_days) ==
    search_from(all_events, round_up_to_5min(after_time), minutes(duration_minutes),
                0, search_days)

(***************************************************************************)
(* check_conflicts                                                         *)
(***************************************************************************)
\* (mutant of overlap: closed intervals)
overlap_closed(a, b) == a.start <= b.end /\ b.start <= a.end

\* the overlap test of a pair
overlap(a, b) == a.start < b.end /\ b.start < a.end

\* (mutant of first_j: the inner loop starts at i)
first_j_self(i) == i

\* the first j of the inner loop, range(i+1, n)
first_j(i) == i + 1

\* (mutant of append_pair: the pair is put in front)
prepend_pair(conflicts, a, b) == <<<<a, b>>>> \o conflicts

\* conflicts.append((a, b))
append_pair(conflicts, a, b) == Append(conflicts, <<a, b>>)

\* the two nested loops over range(n) and range(i+1, n), from (i, j) on
\* (indices from 1), with the conflicts collected so far
RECURSIVE conflicts_from(_, _, _, _)
conflicts_from(evs, i, j, conflicts) ==
    IF i > Len(evs) THEN conflicts
    ELSE IF j > Len(evs) THEN conflicts_from(evs, i + 1, first_j(i + 1), conflicts)
    ELSE conflicts_from(evs, i, j + 1,
                        IF overlap(evs[i], evs[j])
                        THEN append_pair(conflicts, evs[i], evs[j])
                        ELSE conflicts)

\* check_conflicts on the listing it has read
check_conflicts(evs) == conflicts_from(evs, 1, first_j(1), <<>>)

(***************************************************************************)
(* rule_based_suggestions                                                  *)
(***************************************************************************)
ReasonResolve(title) == <<"Resolve overlap with", title>>
ReasonFallback == <<"No free slot in 7 days; suggested immediate after the conflicting event">>

\* (mutant of to_move_is_b: only a strictly later start moves b)
to_move_is_b_strict(a, b) == b.start > a.start

\* to_move = b if b["start"] >= a["start"] else a
to_move_is_b(a, b) == b.start >= a.start

\* the body of the loop over the conflicts, for one pair
suggestion_for(a, b, all_events) ==
    LET moves_b == to_move_is_b(a, b)
        to_move == IF moves_b THEN b ELSE a
        keep == IF moves_b THEN a ELSE b
        duration_minutes == whole_minutes(to_move.end - to_move.start)
        slot == find_free_slot(all_events, duration_minutes, keep.end, SearchDays)
        new_start == IF slot # None THEN slot ELSE keep.end
        new_end == IF slot # None THEN slot + minutes(duration_minutes)
                   ELSE keep.end + (to_move.end - to_move.start)
        reason == IF slot # None THEN ReasonResolve(keep.title) ELSE ReasonFallback
    IN  [move_event |-> [id |-> to_move.id, title |-> to_move.title,
                         start_iso |-> isoformat_minutes(to_move.start),
                         end_iso |-> isoformat_minutes(to_move.end),
                         place |-> to_move.place],
         new_start_iso |-> isoformat_minutes(new_start),
         new_end_iso |-> isoformat_minutes(new_end),
         reason |-> reason]

\* rule_based_suggestions, given the conflicts of its first read of the
\* table and the listing of its second read
rule_based_suggestions(conflicts, all_events) ==
    [k \in DOMAIN conflicts |-> suggestion_for(conflicts[k][1], conflicts[k][2], all_events)]

(***************************************************************************)
(* llm_explain_suggestion and the decoration of the suggestions            *)
(***************************************************************************)
LlmNone == "None"
LlmContent == "resp.content"
LlmFailed == "(LLM failed: e)"

\* llm_explain_suggestion: None without USE_LLM, else the text of the model,
\* or the text built in the except branch when the call raises
llm_explain_suggestion(use_llm, outcome) ==
    IF ~use_llm THEN LlmNone
    ELSE IF outcome = "ok" THEN LlmContent ELSE LlmFailed

\* (mutant of api_suggestions: a suggestion whose explanation failed is left out)
api_suggestions_drop(sugs, use_llm, outcomes) ==
    LET kept == SelectSeq([k \in DOMAIN sugs |-> k], LAMBDA k : ~(use_llm /\ outcomes[k] = "failed"))
    IN  [i \in DOMAIN kept |->
            [move_event |-> sugs[kept[i]].move_event,
             new_start_iso |-> sugs[kept[i]].new_start_iso,
             new_end_iso |-> sugs[kept[i]].new_end_iso,
             reason |-> sugs[kept[i]].reason,
             llm_explanation |-> llm_explain_suggestion(use_llm, outcomes[kept[i]])]]

\* the loop of api_suggestions: each suggestion with its explanation
api_suggestions(sugs, use_llm, outcomes) ==
    [k \in DOMAIN sugs |->
        [move_event |-> sugs[k].move_event,
         new_start_iso |-> sugs[k].new_start_iso,
         new_end_iso |-> sugs[k].new_end_iso,
         reason |-> sugs[k].reason,
         llm_explanation |-> llm_explain_suggestion(use_llm, outcomes[k])]]

\* what the calls of the narrator can do, one per suggestion
Outcomes(n, use_llm) == [1..n -> IF use_llm THEN {"ok", "failed"} ELSE {"unused"}]

(***************************************************************************)
(* Table operations                                                        *)
(***************************************************************************)
\* (mutant of add_event_db: only an end before the start is refused)
add_event_db_lax(tbl, sq, title, start_iso, end_iso, place) ==
    IF end_iso < start_iso
    THEN [raised |-> TRUE, events |-> tbl, seq |-> sq, ev_id |-> None]
    ELSE [raised |-> FALSE,
          events |-> tbl \cup {Row(sq + 1, title, start_iso, end_iso, place)},
          seq |-> sq + 1, ev_id |-> sq + 1]

\* add_event_db: the table and the AUTOINCREMENT counter after the call,
\* and the id returned, or the ValueError raised
add_event_db(tbl, sq, title, start_iso, end_iso, place) ==
    IF end_iso <= start_iso
    THEN [raised |-> TRUE, events |-> tbl, seq |-> sq, ev_id |-> None]
    ELSE [raised |-> FALSE,
          events |-> tbl \cup {Row(sq + 1, title, start_iso, end_iso, place)},
          seq |-> sq + 1, ev_id |-> sq + 1]

\* (mutant of update_event_time_db: the UPDATE without its WHERE clause)
update_event_time_db_all(tbl, event_id, new_start_iso, new_end_iso) ==
    {[r EXCEPT !.start = new_start_iso, !.start_sep = SepT, !.end = new_end_iso] : r \in tbl}

\* update_event_time_db: UPDATE ... WHERE id = ? (the new strings are
\* those of a suggestion, which isoformat() writes)
update_event_time_db(tbl, event_id, new_start_iso, new_end_iso) ==
    {IF r.id = event_id
     THEN [r EXCEPT !.start = new_start_iso, !.start_sep = SepT, !.end = new_end_iso]
     ELSE r
     : r \in tbl}

\* clear_db: the database file is removed and the table created again
clear_db_events == {}
clear_db_seq == 0

(***************************************************************************)
(* The service: one action per endpoint                                    *)
(***************************************************************************)
NoResp == [op |-> "none"]
NoPending == [active |-> FALSE, evs |-> <<>>, conflicts |-> <<>>]
\* _tasks = {} at import
NoTasks == <<>>

Init ==
    /\ events = {}
    /\ seq = 0
    /\ resp = NoResp
    /\ issued = {}
    /\ pending = NoPending
    /\ tasks = NoTasks
    /\ next_id = 1

\* EventOut as /conflicts builds it
EventOut(ev) ==
    [id |-> ev.id, title |-> ev.title, start_iso |-> isoformat_minutes(ev.start),
     end_iso |-> isoformat_minutes(ev.end), place |-> ev.place]

\* POST /add
add_event(title, start_iso, end_iso, place) ==
    LET r == add_event_db(events, seq, title, start_iso, end_iso, place)
    IN  /\ events' = r.events
        /\ seq' = r.seq
        /\ resp' = [op |-> "add", status |-> IF r.raised THEN 400 ELSE 200,
                    start_iso |-> start_iso, end_iso |-> end_iso, id |-> r.ev_id]
        /\ issued' = IF r.raised THEN issued ELSE issued \cup {r.ev_id}
        /\ UNCHANGED <<pending, tasks, next_id>>

AddEvent ==
    /\ Cardinality(events) < MaxEvents
    /\ \E title \in Titles, w \in AddWindows \cup BadWindows :
          add_event(title, w[1], w[2], "")

\* GET /conflicts
ApiConflicts ==
    /\ \E evs \in list_events_db(events) :
          LET conflicts == check_conflicts(evs)
          IN  resp' = [op |-> "conflicts", evs |-> evs,
                       out |-> [k \in DOMAIN conflicts |->
                                  [a |-> EventOut(conflicts[k][1]),
                                   b |-> EventOut(conflicts[k][2])]]]
    /\ UNCHANGED <<events, seq, issued, pending, tasks, next_id>>

\* the response of /suggestions: the listing check_conflicts read, its
\* conflicts, the listing rule_based_suggestions read, what the narrator
\* did, and the suggestions returned
suggestions_response(evs, conflicts, all_events, use_llm, outcomes) ==
    [op |-> "suggestions", evs |-> evs, all_events |-> all_events,
     conflicts |-> conflicts, use_llm |-> use_llm, outcomes |-> outcomes,
     suggestions |-> api_suggestions(rule_based_suggestions(conflicts, all_events),
                                     use_llm, outcomes)]

\* GET /suggestions with no other request between its two reads of the
\* table: the same query on the same table lists the rows in the same order
ApiSuggestionsWith(use_llm) ==
    /\ \E evs \in list_events_db(events) :
          LET conflicts == check_conflicts(evs)
              all_events == evs
          IN  \E outcomes \in Outcomes(Len(conflicts), use_llm) :
                 resp' = suggestions_response(evs, conflicts, all_events, use_llm, outcomes)
    /\ UNCHANGED <<events, seq, issued, pending, tasks, next_id>>

\* the service started without OPENAI_API_KEY (USE_LLM is False)
ApiSuggestions == ApiSuggestionsWith(FALSE)

\* the service started with OPENAI_API_KEY (USE_LLM is True)
ApiSuggestionsLlm == ApiSuggestionsWith(TRUE)

\* GET /suggestions while other requests are served: check_conflicts reads
\* the table ...
SuggestionsRead1 ==
    /\ pending = NoPending
    /\ \E evs \in list_events_db(events) :
          pending' = [active |-> TRUE, evs |-> evs, conflicts |-> check_conflicts(evs)]
    /\ UNCHANGED <<events, seq, resp, issued, tasks, next_id>>

\* ... and rule_based_suggestions reads it again and answers
SuggestionsRead2 ==
    /\ pending # NoPending
    /\ \E all_events \in list_events_db(events) :
          \E outcomes \in Outcomes(Len(pending.conflicts), FALSE) :
             resp' = suggestions_response(pending.evs, pending.conflicts, all_events,
                                          FALSE, outcomes)
    /\ pending' = NoPending
    /\ UNCHANGED <<events, seq, issued, tasks, next_id>>

\* POST /apply_suggestion
api_apply_suggestion(s) ==
    /\ events' = update_event_time_db(events, s.move_event.id, s.new_start_iso, s.new_end_iso)
    /\ resp' = [op |-> "apply", status |-> "ok", applied_event_id |-> s.move_event.id,
                new_start_iso |-> s.new_start_iso, new_end_iso |-> s.new_end_iso]
    /\ UNCHANGED <<seq, issued, pending, tasks, next_id>>

\* the caller applies one of the suggestions it has just been given
ApplyReturned ==
    /\ resp.op = "suggestions"
    /\ \E k \in DOMAIN resp.suggestions : api_apply_suggestion(resp.suggestions[k])

\* the caller posts a suggestion of its own making
ApplyAny ==
    \E id \in 1..(MaxEvents + 1), w \in ApplyWindows :
        api_apply_suggestion([move_event |-> [id |-> id], new_start_iso |-> w[1],
                              new_end_iso |-> w[2]])

\* POST /clear_db
ApiClearDb ==
    /\ events' = clear_db_events
    /\ seq' = clear_db_seq
    /\ resp' = [op |-> "cleared"]
    /\ UNCHANGED <<issued, pending, tasks, next_id>>

Next ==
    \/ AddEvent
    \/ ApiConflicts
    \/ ApiSuggestions
    \/ ApiSuggestionsLlm
    \/ ApplyReturned
    \/ ApplyAny
    \/ ApiClearDb

Spec == Init /\ [][Next]_vars

(***************************************************************************)
(* The service with other requests served between the two reads of a       *)
(* /suggestions request (the endpoints are sync functions, which the       *)
(* framework runs on a pool of threads)                                    *)
(***************************************************************************)
NextConcurrent ==
    \/ AddEvent
    \/ ApplyAny
    \/ ApiClearDb
    \/ SuggestionsRead1
    \/ SuggestionsRead2

SpecConcurrent == Init /\ [][NextConcurrent]_vars

(***************************************************************************)
(* The service with a caller that adds events, asks for suggestions and    *)
(* applies only suggestions that were returned to it                       *)
(***************************************************************************)
NextReturned ==
    \/ AddEvent
    \/ ApiSuggestions
    \/ ApplyReturned

SpecReturned == Init /\ [][NextReturned]_vars

(***************************************************************************)
(* The free-slot search as a function of its arguments                     *)
(***************************************************************************)
\* the tables that hold n rows, with ids 1..n in the order of their insertion,
\* and windows drawn from `windows`
TablesOf(n, windows) ==
    {{Row(i, "X", f[i][1], f[i][2], "") : i \in 1..n} : f \in [1..n -> windows]}

FindStores == UNION {TablesOf(n, FindWindows) : n \in 0..MaxBusy}

InitFind ==
    /\ events \in FindStores
    /\ seq = Cardinality(events)
    /\ resp = NoResp
    /\ issued = {r.id : r \in events}
    /\ pending = NoPending
    /\ tasks = NoTasks
    /\ next_id = 1

\* one call of find_free_slot per drawn table
FindFreeSlotCall ==
    /\ resp = NoResp
    /\ \E all_events \in list_events_db(events), d \in Durations, after \in Afters :
          resp' = [op |-> "find_free_slot", all_events |-> all_events,
                   duration_minutes |-> d, after_time |-> after,
                   slot |-> find_free_slot(all_events, d, after, SearchDays)]
    /\ UNCHANGED <<events, seq, issued, pending, tasks, next_id>>

SpecFind == InitFind /\ [][FindFreeSlotCall]_vars

(***************************************************************************)
(* Conflict detection and suggestion building as functions of the table    *)
(***************************************************************************)
ListedStores == UNION {TablesOf(n, AddWindows) : n \in 0..MaxListed}

InitListed ==
    /\ events \in ListedStores
    /\ seq = Cardinality(events)
    /\ resp = NoResp
    /\ issued = {r.id : r \in events}
    /\ pending = NoPending
    /\ tasks = NoTasks
    /\ next_id = 1

\* one request per drawn table
NextListed ==
    \/ resp = NoResp /\ ApiConflicts
    \/ resp = NoResp /\ ApiSuggestions

SpecListed == InitListed /\ [][NextListed]_vars

(***************************************************************************)
(* Suggestion building on a calendar whose working hours are booked        *)
(***************************************************************************)
\* one event per lookahead day that takes the whole of the working hours
Bookings ==
    {Row(d + 1, "X", At(d, WorkStartHour, 0, 0), At(d, WorkEndHour, 0, 0), "")
     : d \in 0..(SearchDays - 1)}

\* further events of day 0: inside working hours, and in the evening
ExtraWindows == {<<At(0, 9, 0, 0), At(0, 9, 30, 0)>>, <<At(0, 9, 0, 0), At(0, 10, 0, 0)>>,
                 <<At(0, 12, 0, 0), At(0, 12, 30, 0)>>, <<At(0, 20, 30, 0), At(0, 21, 0, 0)>>,
                 <<At(0, 22, 0, 0), At(0, 22, 30, 0)>>, <<At(0, 23, 0, 0), At(0, 23, 30, 0)>>}

BookedStores ==
    UNION {{Bookings \cup {Row(SearchDays + i, "Y", f[i][1], f[i][2], "") : i \in 1..n}
            : f \in [1..n -> ExtraWindows]} : n \in 0..MaxExtra}

InitBooked ==
    /\ events \in BookedStores
    /\ seq = Cardinality(events)
    /\ resp = NoResp
    /\ issued = {r.id : r \in events}
    /\ pending = NoPending
    /\ tasks = NoTasks
    /\ next_id = 1

NextBooked ==
    \/ resp = NoResp /\ ApiConflicts
    \/ resp = NoResp /\ ApiSuggestions

SpecBooked == InitBooked /\ [][NextBooked]_vars

(***************************************************************************)
(* Conflict detection and suggestion building on a table whose start_iso   *)
(* strings are written with "T" or with a space                            *)
(***************************************************************************)
MixedStores ==
    UNION {{{RowWritten(i, "X", f[i][1], g[i], f[i][2], "") : i \in 1..n}
            : f \in [1..n -> AddWindows], g \in [1..n -> {SepT, SepSpace}]}
           : n \in 0..MaxMixed}

InitMixed ==
    /\ events \in MixedStores
    /\ seq = Cardinality(events)
    /\ resp = NoResp
    /\ issued = {r.id : r \in events}
    /\ pending = NoPending
    /\ tasks = NoTasks
    /\ next_id = 1

NextMixed ==
    \/ resp = NoResp /\ ApiConflicts
    \/ resp = NoResp /\ ApiSuggestions

SpecMixed == InitMixed /\ [][NextMixed]_vars

(***************************************************************************)
(* The service with a caller that resolves the conflicts of a calendar:    *)
(* it asks for the suggestions, applies the first one, and asks again      *)
(***************************************************************************)
\* windows on whole minutes within one day: in the morning, across the end
\* of the working hours, and late in the evening
ResolveWindows ==
    {<<At(0, 9, 0, 0), At(0, 10, 0, 0)>>, <<At(0, 9, 30, 0), At(0, 10, 30, 0)>>,
     <<At(0, 10, 0, 0), At(0, 10, 30, 0)>>, <<At(0, 20, 0, 0), At(0, 21, 0, 0)>>,
     <<At(0, 20, 30, 0), At(0, 21, 30, 0)>>, <<At(0, 23, 0, 0), At(0, 23, 58, 0)>>}

ResolveStores == UNION {TablesOf(n, ResolveWindows) : n \in 0..MaxResolve}

InitResolve ==
    /\ events \in ResolveStores
    /\ seq = Cardinality(events)
    /\ resp = NoResp
    /\ issued = {r.id : r \in events}
    /\ pending = NoPending
    /\ tasks = NoTasks
    /\ next_id = 1

\* the caller asks for the suggestions, at first and after each apply
ResolveSuggest ==
    /\ resp.op \in {"none", "apply"}
    /\ ApiSuggestions

\* the caller applies the first suggestion of the list it was given
ResolveApplyFirst ==
    /\ resp.op = "suggestions"
    /\ resp.suggestions # <<>>
    /\ api_apply_suggestion(resp.suggestions[1])

NextResolve ==
    \/ ResolveSuggest
    \/ ResolveApplyFirst

SpecResolve == InitResolve /\ [][NextResolve]_vars

(***************************************************************************)
(* The reminder backend: the task store of BACKEND.py and mock_backend.py  *)
(***************************************************************************)
\* the fields of a Task, and an attribute of a Task that is not a field
\* (hasattr is true of it, and setattr raises ValueError)
TaskFields == {"id", "name", "description", "due_datetime", "status"}
TaskMethods == {"copy"}

\* _parse_iso: the strings datetime.fromisoformat takes once "Z" is replaced
IsoStrings == {"2024-01-01T09:00", "2024-01-02T09:00:00Z"}
parses(dt_str) == dt_str \in IsoStrings

\* one item of a dictionary: the key, and the value or None
Item(k, v) == [k |-> k, v |-> v, is_none |-> FALSE]
ItemNone(k) == [k |-> k, v |-> "", is_none |-> TRUE]

\* the dictionaries that callers put to update_task, in the order of their items
Payloads ==
    {<<>>,
     <<Item("status", "Done")>>,
     <<ItemNone("status")>>,
     <<Item("id", 7)>>,
     <<Item("priority", "high")>>,
     <<Item("due_datetime", "2024-01-02T09:00:00Z")>>,
     <<Item("due_datetime", "tomorrow")>>,
     <<ItemNone("due_datetime")>>,
     <<Item("status", "Done"), Item("due_datetime", "tomorrow")>>,
     <<Item("status", "Done"), Item("copy", "x")>>}

\* the due_datetime strings that callers post to add_task
DueInputs == {"2024-01-01T09:00", "tomorrow"}

\* add_task: the store and _next_id after the call, and the status answered
add_task(tbl, nid, name, description, due_datetime, status) ==
    IF ~parses(due_datetime)
    THEN [status |-> 400, tasks |-> tbl, next_id |-> nid, id |-> nid]
    ELSE [status |-> 200,
          tasks |-> tbl @@ (nid :> [id |-> nid, name |-> name, description |-> description,
                                    due_datetime |-> due_datetime, status |-> status]),
          next_id |-> nid + 1, id |-> nid]

\* hasattr(task, k)
has_attr(k) == k \in TaskFields \cup TaskMethods

\* the loop over payload.items(): the task after it, and whether setattr raised
RECURSIVE set_attrs(_, _)
set_attrs(task, payload) ==
    IF payload = <<>> THEN [raised |-> FALSE, task |-> task]
    ELSE LET it == Head(payload)
         IN  IF has_attr(it.k) /\ ~it.is_none
             THEN IF it.k \in TaskMethods THEN [raised |-> TRUE, task |-> task]
                  ELSE set_attrs([task EXCEPT ![it.k] = it.v], Tail(payload))
             ELSE set_attrs(task, Tail(payload))

\* the due_datetime of the payload is present and _parse_iso raises on it
\* (on None too: None has no replace)
bad_due(payload) ==
    \E i \in DOMAIN payload :
        payload[i].k = "due_datetime" /\ (payload[i].is_none \/ ~parses(payload[i].v))

\* the same in mock_backend.py, which validates only a due_datetime that is
\* not None
mock_bad_due(payload) ==
    \E i \in DOMAIN payload :
        payload[i].k = "due_datetime" /\ ~payload[i].is_none /\ ~parses(payload[i].v)

\* the rest of update_task once the payload is validated: the task object
\* of the store is changed in place, also when setattr raises half way
update_validated(tbl, task_id, payload) ==
    LET r == set_attrs(tbl[task_id], payload)
    IN  [status |-> IF r.raised THEN 500 ELSE 200,
         tasks |-> [tbl EXCEPT ![task_id] = r.task]]

\* update_task of BACKEND.py
update_task(tbl, task_id, payload) ==
    IF task_id \notin DOMAIN tbl THEN [status |-> 404, tasks |-> tbl]
    ELSE IF bad_due(payload) THEN [status |-> 400, tasks |-> tbl]
    ELSE update_validated(tbl, task_id, payload)

\* update_task of mock_backend.py
mock_update_task(tbl, task_id, payload) ==
    IF task_id \notin DOMAIN tbl THEN [status |-> 404, tasks |-> tbl]
    ELSE IF mock_bad_due(payload) THEN [status |-> 400, tasks |-> tbl]
    ELSE update_validated(tbl, task_id, payload)

\* delete_task
delete_task(tbl, task_id) ==
    IF task_id \notin DOMAIN tbl THEN [status |-> 404, tasks |-> tbl]
    ELSE [status |-> 204, tasks |-> [k \in (DOMAIN tbl) \ {task_id} |-> tbl[k]]]

\* POST /add_task
AddTask ==
    /\ next_id <= MaxTasks
    /\ \E due \in DueInputs :
          LET r == add_task(tasks, next_id, "t", "", due, "Pending")
          IN  /\ tasks' = r.tasks
              /\ next_id' = r.next_id
              /\ resp' = [op |-> "add_task", status |-> r.status, id |-> r.id]
    /\ UNCHANGED <<events, seq, issued, pending>>

\* PUT /update_task/{task_id}
UpdateTask ==
    /\ \E task_id \in 1..(MaxTasks + 1), payload \in Payloads :
          LET r == update_task(tasks, task_id, payload)
          IN  /\ tasks' = r.tasks
              /\ resp' = [op |-> "update_task", status |-> r.status, task_id |-> task_id]
    /\ UNCHANGED <<events, seq, issued, pending, next_id>>

\* PUT /tasks/{task_id} of the mock backend
MockUpdateTask ==
    /\ \E task_id \in 1..(MaxTasks + 1), payload \in Payloads :
          LET r == mock_update_task(tasks, task_id, payload)
          IN  /\ tasks' = r.tasks
              /\ resp' = [op |-> "update_task", status |-> r.status, task_id |-> task_id]
    /\ UNCHANGED <<events, seq, issued, pending, next_id>>

\* DELETE /delete_task/{task_id}
DeleteTask ==
    /\ \E task_id \in 1..(MaxTasks + 1) :
          LET r == delete_task(tasks, task_id)
          IN  /\ tasks' = r.tasks
              /\ resp' = [op |-> "delete_task", status |-> r.status, task_id |-> task_id]
    /\ UNCHANGED <<events, seq, issued, pending, next_id>>

NextTasks ==
    \/ AddTask
    \/ UpdateTask
    \/ DeleteTask

SpecTasks == Init /\ [][NextTasks]_vars

NextMockTasks ==
    \/ AddTask
    \/ MockUpdateTask
    \/ DeleteTask

SpecMockTasks == Init /\ [][NextMockTasks]_vars

(***************************************************************************)
(* Properties                                                              *)
(***************************************************************************)
FoundSlot == resp.op = "find_free_slot" /\ resp.slot # None

\* half-open windows [s1, e1) and [s2, e2) intersect
Intersect(s1, e1, s2, e2) == s1 < e2 /\ s2 < e1

\* C1: a slot returned by find_free_slot lies inside the working hours of its
\* day: slot >= 08:00 and slot + duration <= 21:00 of that day.
C1_SlotInsideWorkingHours ==
    FoundSlot =>
        LET day == date(resp.slot)
        IN  /\ resp.slot >= At(day, 8, 0, 0)
            /\ resp.slot + minutes(resp.duration_minutes) <= At(day, 21, 0, 0)

\* C2: a slot returned by find_free_slot starts at or after the lower bound
\* it was given.
C2_SlotNotBeforeLowerBound == FoundSlot => resp.slot >= resp.after_time

\* C3 (as stated): the window [slot, slot + duration) overlaps no event of the
\* supplied list, whatever day the event starts on.
C3_SlotOverlapsNoEvent ==
    FoundSlot =>
        \A k \in DOMAIN resp.all_events :
            ~Intersect(resp.slot, resp.slot + minutes(resp.duration_minutes),
                       resp.all_events[k].start, resp.all_events[k].end)

\* C3 (amended): the window [slot, slot + duration) overlaps no event of the
\* supplied list that starts on the calendar day of the slot.
C3_SlotOverlapsNoEventOfItsDay ==
    FoundSlot =>
        \A k \in DOMAIN resp.all_events :
            date(resp.all_events[k].start) = date(resp.slot) =>
                ~Intersect(resp.slot, resp.slot + minutes(resp.duration_minutes),
                           resp.all_events[k].start, resp.all_events[k].end)

\* C3 witness: a slot was returned on a day where the window at the rounded
\* lower bound would have overlapped an event of that day.
C3_WitnessPushedPastBusy ==
    /\ FoundSlot
    /\ \E k \in DOMAIN resp.all_events :
          LET ev == resp.all_events[k]
              probe == round_up_to_5min(resp.after_time)
          IN  /\ date(ev.start) = date(resp.slot)
              /\ date(probe) = date(resp.slot)
              /\ Intersect(probe, probe + minutes(resp.duration_minutes), ev.start, ev.end)

\* the stored row with the given id
RowOf(id) == CHOOSE r \in events : r.id = id

\* C4: with exactly X = [09:00, 10:00) and Y = [09:30, 10:30) stored, the
\* suggestions are one suggestion that moves Y to [10:00, 11:00).
C4_ScenarioA ==
    (/\ resp.op = "suggestions"
     /\ Cardinality(events) = 2
     /\ \E x, y \in events : /\ x.start = At(0, 9, 0, 0) /\ x.end = At(0, 10, 0, 0)
                             /\ y.start = At(0, 9, 30, 0) /\ y.end = At(0, 10, 30, 0))
    => /\ Len(resp.suggestions) = 1
       /\ RowOf(resp.suggestions[1].move_event.id).start = At(0, 9, 30, 0)
       /\ resp.suggestions[1].new_start_iso = At(0, 10, 0, 0)
       /\ resp.suggestions[1].new_end_iso = At(0, 11, 0, 0)

\* C5: every suggestion keeps the duration of the event it moves:
\* newEnd - newStart = originalEnd - originalStart.
C5_DurationPreserved ==
    resp.op = "suggestions" =>
        \A k \in DOMAIN resp.suggestions :
            LET s == resp.suggestions[k]
                orig == RowOf(s.move_event.id)
            IN  s.new_end_iso - s.new_start_iso = orig.end - orig.start

\* C6: an add whose end is not after its start is answered 400 and changes
\* neither the table nor the id counter.
C6_InvalidWindowRejected ==
    [][(resp'.op = "add" /\ resp'.end_iso <= resp'.start_iso)
       => (resp'.status = 400 /\ events' = events /\ seq' = seq)]_vars

\* C6 witness: an add was refused while the table held events.
C6_WitnessRejected == resp.op = "add" /\ resp.status = 400 /\ events # {}

\* the pair {x, y} is among the pairs /conflicts returned
Reported(x, y) ==
    \E k \in DOMAIN resp.out : {resp.out[k].a.id, resp.out[k].b.id} = {x.id, y.id}

\* C7: a pair of stored events is reported iff s1 < e2 and s2 < e1; a pair
\* that only touches (e1 = s2) is not reported.
C7_ConflictIffOverlap ==
    resp.op = "conflicts" =>
        \A x, y \in events :
            x.id # y.id =>
                /\ Reported(x, y) <=> (x.start < y.end /\ y.start < x.end)
                /\ x.end = y.start => ~Reported(x, y)

\* C7 witness: /conflicts answered for a table with a touching pair and an
\* overlapping pair.
C7_WitnessTouching ==
    /\ resp.op = "conflicts"
    /\ Len(resp.out) > 0
    /\ \E x, y \in events : x.end = y.start

\* the events of the listing /conflicts read are pairwise disjoint, or
\* pairwise overlapping
PairwiseDisjoint(evs) ==
    \A i, j \in DOMAIN evs :
        i < j => ~Intersect(evs[i].start, evs[i].end, evs[j].start, evs[j].end)
PairwiseOverlapping(evs) ==
    \A i, j \in DOMAIN evs :
        i < j => Intersect(evs[i].start, evs[i].end, evs[j].start, evs[j].end)

\* C8: n pairwise disjoint events give no pair; n pairwise overlapping events
\* give n(n-1)/2 pairs, each unordered pair once and no event with itself;
\* 0 or 1 events give no pair.
C8_ConflictCounts ==
    resp.op = "conflicts" =>
        LET n == Len(resp.evs)
            out == resp.out
        IN  /\ PairwiseDisjoint(resp.evs) => out = <<>>
            /\ n <= 1 => out = <<>>
            /\ PairwiseOverlapping(resp.evs) =>
                  /\ 2 * Len(out) = n * (n - 1)
                  /\ \A k \in DOMAIN out : out[k].a.id # out[k].b.id
                  /\ \A k, l \in DOMAIN out :
                        k # l => {out[k].a.id, out[k].b.id} # {out[l].a.id, out[l].b.id}

\* C8 witness: three pairwise overlapping events gave three pairs.
C8_WitnessThreeOverlapping ==
    /\ resp.op = "conflicts"
    /\ Len(resp.evs) = 3
    /\ PairwiseOverlapping(resp.evs)
    /\ Len(resp.out) = 3

\* the overlapping index pairs (i, j), i < j, of a listing, and the place of
\* one of them in their lexicographic order
OverlappingPairs(evs) ==
    {p \in (DOMAIN evs) \X (DOMAIN evs) :
        /\ p[1] < p[2]
        /\ Intersect(evs[p[1]].start, evs[p[1]].end, evs[p[2]].start, evs[p[2]].end)}
LexLess(p, q) == p[1] < q[1] \/ (p[1] = q[1] /\ p[2] < q[2])
Rank(p, pairs) == Cardinality({q \in pairs : LexLess(q, p)}) + 1

\* C9: /conflicts lists the overlapping pairs in (i, j) index order over the
\* listing it read, (1,2), (1,3), (2,3) for three pairwise overlapping
\* events, and /suggestions gives one suggestion per pair in that order.
C9_PairsInIndexOrder ==
    /\ resp.op = "conflicts" =>
          LET pairs == OverlappingPairs(resp.evs)
          IN  /\ Len(resp.out) = Cardinality(pairs)
              /\ \A p \in pairs :
                    /\ resp.out[Rank(p, pairs)].a.id = resp.evs[p[1]].id
                    /\ resp.out[Rank(p, pairs)].b.id = resp.evs[p[2]].id
    /\ resp.op = "suggestions" =>
          LET pairs == OverlappingPairs(resp.all_events)
          IN  /\ Len(resp.suggestions) = Cardinality(pairs)
              /\ \A p \in pairs :
                    resp.suggestions[Rank(p, pairs)].move_event.id
                        \in {resp.all_events[p[1]].id, resp.all_events[p[2]].id}

\* C9 witness: three pairwise overlapping events, listed as (1,2), (1,3), (2,3).
C9_WitnessThreePairs ==
    /\ resp.op = "conflicts"
    /\ Len(resp.evs) = 3
    /\ Len(resp.out) = 3
    /\ resp.out[1].a.id = resp.evs[1].id /\ resp.out[1].b.id = resp.evs[2].id
    /\ resp.out[2].a.id = resp.evs[1].id /\ resp.out[2].b.id = resp.evs[3].id
    /\ resp.out[3].a.id = resp.evs[2].id /\ resp.out[3].b.id = resp.evs[3].id

\* the working hours of `day` are taken by one event of the listing
Booked(all_events, day) ==
    \E k \in DOMAIN all_events :
        /\ all_events[k].start <= At(day, 8, 0, 0)
        /\ all_events[k].end >= At(day, 21, 0, 0)

\* C10: when the working hours of each of the 7 lookahead days are booked
\* and the event to move lasts 30 minutes, find_free_slot finds no slot and
\* the suggestion is the fallback: newStart = anchor.end, newEnd = anchor.end
\* + 30 minutes, with the fallback reason.
C10_ScenarioB ==
    resp.op = "suggestions" =>
        \A k \in DOMAIN resp.suggestions :
            LET s == resp.suggestions[k]
                a == resp.conflicts[k][1]
                b == resp.conflicts[k][2]
                mover == IF s.move_event.id = b.id THEN b ELSE a
                anchor == IF s.move_event.id = b.id THEN a ELSE b
                day0 == date(round_up_to_5min(anchor.end))
            IN  (/\ mover.end - mover.start = minutes(30)
                 /\ \A d \in 0..6 : Booked(resp.all_events, day0 + d))
                => /\ find_free_slot(resp.all_events, 30, anchor.end, SearchDays) = None
                   /\ s.new_start_iso = anchor.end
                   /\ s.new_end_iso = anchor.end + minutes(30)
                   /\ s.reason = ReasonFallback

\* the row of the table that the last /apply_suggestion request named, if any
AppliedRows == {r \in events : r.id = resp.applied_event_id}

\* C11: an apply that names an event id the table does not hold does not
\* report success (update_event_time_db never changes the ids of the table,
\* so the id is absent after the request exactly when it was absent before).
C11_ApplyAbsentIdNotFound ==
    (resp.op = "apply" /\ AppliedRows = {}) => resp.status # "ok"

\* the suggestions of the last /suggestions response before their decoration
Undecorated == rule_based_suggestions(resp.conflicts, resp.all_events)

\* suggestion k of the last response is suggestion k of the rule-based
\* suggestions in every field but the explanation
SameButExplanation(k) ==
    /\ resp.suggestions[k].move_event = Undecorated[k].move_event
    /\ resp.suggestions[k].new_start_iso = Undecorated[k].new_start_iso
    /\ resp.suggestions[k].new_end_iso = Undecorated[k].new_end_iso
    /\ resp.suggestions[k].reason = Undecorated[k].reason

\* the call of the narrator for suggestion k was not made (USE_LLM is False)
NarratorUnavailable == ~resp.use_llm

\* the call of the narrator for suggestion k raised
NarratorFailed(k) == resp.use_llm /\ resp.outcomes[k] = "failed"

C13_IdsNeverReused ==
    [][/\ (resp'.op = "add" /\ resp'.status = 200 /\ events' # events)
             => resp'.id \notin issued
       /\ \A r1, r2 \in events' : r1.id = r2.id => r1 = r2
       /\ resp'.op # "cleared" => {r.id : r \in events} \subseteq {r.id : r \in events'}]_vars

\* C14: a step that serves /apply_suggestion leaves the id counter alone,
\* keeps each row's id, title and place, sets the start and end of the row it
\* names to the new window whatever they were, and leaves every other row as
\* it was; and a step that serves the request just served once more (same id,
\* same window) leaves the whole table as the first left it.
C14_ApplyOverwritesIdempotently ==
    [][resp'.op = "apply" =>
         /\ seq' = seq
         /\ Cardinality(events') = Cardinality(events)
         /\ \A r \in events :
               \E r2 \in events' :
                  /\ r2.id = r.id /\ r2.title = r.title /\ r2.place = r.place
                  /\ IF r.id = resp'.applied_event_id
                     THEN r2.start = resp'.new_start_iso /\ r2.end = resp'.new_end_iso
                     ELSE r2 = r
         /\ resp = resp' => events' = events]_vars

\* an apply has overwritten the window of one of two stored events, and the
\* other event holds another window
C14_WitnessApplied ==
    /\ resp.op = "apply"
    /\ Cardinality(events) = 2
    /\ \E r \in AppliedRows : r.start = resp.new_start_iso /\ r.end = resp.new_end_iso
    /\ \E r \in events \ AppliedRows : r.start # resp.new_start_iso

\* the event of conflicting pair k of the last /suggestions response that
\* suggestion k leaves in place
Anchor(k) ==
    IF resp.suggestions[k].move_event.id = resp.conflicts[k][2].id
    THEN resp.conflicts[k][1] ELSE resp.conflicts[k][2]

\* the event of conflicting pair k that suggestion k moves
Mover(k) ==
    IF resp.suggestions[k].move_event.id = resp.conflicts[k][2].id
    THEN resp.conflicts[k][2] ELSE resp.conflicts[k][1]

\* C15: the new start of every suggestion returned, found slot or fallback,
\* is not earlier than the end of the anchor event of its pair.
C15_NewStartNotBeforeAnchorEnd ==
    resp.op = "suggestions" =>
        \A k \in DOMAIN resp.suggestions :
            resp.suggestions[k].new_start_iso >= Anchor(k).end

\* t is on a 5-minute boundary
OnBoundary(t) == t % minutes(RoundStep) = 0

\* C16: the lower bound is rounded up to the next 5-minute boundary, and is
\* left as it is when it is on one; and every slot start that find_free_slot
\* returns is on a 5-minute boundary, whatever the ends of the busy events.
C16_SlotOnFiveMinuteBoundary ==
    resp.op = "find_free_slot" =>
        /\ OnBoundary(round_up_to_5min(resp.after_time))
        /\ OnBoundary(resp.after_time) => round_up_to_5min(resp.after_time) = resp.after_time
        /\ resp.slot # None => OnBoundary(resp.slot)

\* C17: the listing in which a /suggestions request detects its conflicts
\* and the listing in which it searches the free slots hold the same rows,
\* whatever other requests are served meanwhile.
C17_OneSnapshotPerRequest ==
    resp.op = "suggestions" =>
        {resp.evs[i] : i \in DOMAIN resp.evs}
            = {resp.all_events[i] : i \in DOMAIN resp.all_events}

\* the reference search: t is a start at or after `probe` such that, on one
\* of the search_days days from the day of `probe`, [t, t + duration) lies
\* within the working hours of the day and intersects no event that starts
\* on that day
ValidStart(t, all_events, probe, duration, search_days) ==
    /\ t >= probe
    /\ \E d \in 0..(search_days - 1) :
          LET day == date(probe) + d
          IN  /\ t >= midnight(day) + hours(WorkStartHour)
              /\ t + duration <= midnight(day) + hours(WorkEndHour)
              /\ \A k \in DOMAIN all_events :
                    date(all_events[k].start) = day
                       => ~Intersect(t, t + duration, all_events[k].start, all_events[k].end)

\* the starts the reference search tries: the bound, the start of the
\* working hours of each day, every half hour of each day, and the end of
\* every event (the earliest valid start, if there is one, is among these)
CandidateStarts(all_events, probe, search_days) ==
    {probe}
    \cup {all_events[k].end : k \in DOMAIN all_events}
    \cup {midnight(date(probe) + d) + minutes(30 * h) : d \in 0..(search_days - 1), h \in 0..47}

\* C18: find_free_slot returns the earliest start that the reference search
\* accepts, and returns None only when the reference search accepts none.
C18_FirstFitAndComplete ==
    resp.op = "find_free_slot" =>
        LET probe == round_up_to_5min(resp.after_time)
            duration == minutes(resp.duration_minutes)
            valid == {t \in CandidateStarts(resp.all_events, probe, SearchDays) :
                         ValidStart(t, resp.all_events, probe, duration, SearchDays)}
        IN  IF resp.slot = None THEN valid = {}
            ELSE /\ ValidStart(resp.slot, resp.all_events, probe, duration, SearchDays)
                 /\ \A t \in valid : resp.slot <= t

\* C19: for conflicting pair k = (a, b) of a /suggestions response, with a
\* listed before b, the event of suggestion k is b if b.start >= a.start and
\* a otherwise (so b on equal starts), the suggestion carries that event as
\* stored, and the reason names the other event of the pair, the anchor,
\* for which the response proposes nothing unless another pair moves it.
C19_LaterStartMoves ==
    resp.op = "suggestions" =>
        /\ Len(resp.suggestions) = Len(resp.conflicts)
        /\ \A k \in DOMAIN resp.suggestions :
              LET a == resp.conflicts[k][1]
                  b == resp.conflicts[k][2]
                  to_move == IF b.start >= a.start THEN b ELSE a
                  keep == IF b.start >= a.start THEN a ELSE b
                  s == resp.suggestions[k]
              IN  /\ \E i, j \in DOMAIN resp.all_events :
                        i < j /\ resp.all_events[i] = a /\ resp.all_events[j] = b
                  /\ s.move_event = EventOut(to_move)
                  /\ s.move_event.id # keep.id
                  /\ s.reason \in {ReasonResolve(keep.title), ReasonFallback}
                  /\ a.start = b.start => s.move_event.id = b.id

\* a pair of events with equal starts, for which the later-listed one moves
C19_WitnessEqualStarts ==
    /\ resp.op = "suggestions"
    /\ \E k \in DOMAIN resp.suggestions :
          /\ resp.conflicts[k][1].start = resp.conflicts[k][2].start
          /\ resp.suggestions[k].move_event.id = resp.conflicts[k][2].id
          /\ resp.conflicts[k][1].id > resp.conflicts[k][2].id

\* a pair whose first-listed event starts later than the second (its
\* start_iso is written with a space), so that the first-listed event moves
C19_WitnessEarlierListedMoves ==
    /\ resp.op = "suggestions"
    /\ \E k \in DOMAIN resp.suggestions :
          /\ resp.conflicts[k][1].start > resp.conflicts[k][2].start
          /\ resp.suggestions[k].move_event.id = resp.conflicts[k][1].id

\* C20: every stored event ends after it starts.
C20_EndAfterStart ==
    \A r \in events : r.end > r.start

\* every event of the table is on whole minutes, ends after it starts, and
\* lies within one calendar day
WithinADay(tbl) ==
    \A r \in tbl :
        /\ r.start % 60 = 0 /\ r.end % 60 = 0
        /\ r.end > r.start
        /\ r.end <= midnight(date(r.start) + 1)

\* the conflicting pairs of the table
ConflictingPairs(tbl) == {p \in tbl \X tbl : p[1].id < p[2].id /\ overlap(p[1], p[2])}

\* a step applies the first suggestion of the response at hand, which came
\* from the found-slot path, to a table of events within a day
AppliesFoundSlot ==
    /\ WithinADay(events)
    /\ resp.op = "suggestions" /\ resp.suggestions # <<>>
    /\ resp.suggestions[1].reason # ReasonFallback
    /\ resp'.op = "apply"

\* C21: on a table of events on whole minutes, each within one day, a step
\* that applies a found-slot suggestion to the table it was computed from
\* leaves the moved event overlapping no other event, makes the number of
\* conflicting pairs strictly smaller and keeps every event within one day;
\* and the list of suggestions the caller is given is empty exactly when the
\* table has no conflicting pair. So the caller that goes on taking the first
\* suggestion and applying it makes at most as many applies as there are
\* conflicting pairs and stops on a table without conflicts, unless a
\* fallback suggestion is produced.
C21_ResolveReachesConflictFree ==
    [][/\ AppliesFoundSlot =>
            /\ \A r, q \in events' :
                  (r.id = resp'.applied_event_id /\ q.id # r.id) => ~overlap(r, q)
            /\ Cardinality(ConflictingPairs(events')) < Cardinality(ConflictingPairs(events))
            /\ WithinADay(events')
       /\ resp'.op = "suggestions" =>
            (resp'.suggestions = <<>> <=> ConflictingPairs(events') = {})]_vars

\* three events that conflicted have been moved apart by applied suggestions
C21_WitnessResolved ==
    /\ resp.op = "apply"
    /\ Cardinality(events) = 3
    /\ ConflictingPairs(events) = {}
    /\ \E r \in events : r.start >= At(0, 21, 0, 0) /\ r.id = resp.applied_event_id

\* C22: after every step of the task store each entry is kept under the id
\* of its task; a task added gets an id greater than the id of every entry
\* of the store, not below the _next_id of before and below the _next_id of
\* after, and _next_id never goes down (so no id is given twice, also after
\* a delete); and an update or a delete of an id the store does not hold
\* answers 404 and leaves the store as it was.
C22_TaskStoreKeyedById ==
    [][/\ \A k \in DOMAIN tasks' : tasks'[k].id = k
       /\ next_id' >= next_id
       /\ (resp'.op = "add_task" /\ resp'.status = 200 /\ tasks' # tasks)
             => /\ \A k \in DOMAIN tasks : k < resp'.id
                /\ resp'.id >= next_id /\ resp'.id < next_id'
                /\ DOMAIN tasks' = DOMAIN tasks \cup {resp'.id}
       /\ (resp'.op \in {"update_task", "delete_task"} /\ resp'.task_id \notin DOMAIN tasks)
             => resp'.status = 404 /\ tasks' = tasks]_vars

=============================================================================
